---- MODULE Spec2Model ----
(***************************************************************************)
(* A model of chem2smiles.py: the Resolver (name_to_smiles), the Renderer  *)
(* (save_molecule_image) and the CLI driver (main) with its three modes.   *)
(*                                                                         *)
(* Strings are sequences of one-character strings.  The external           *)
(* collaborators are modelled by what the code observes of them:           *)
(*   - the validator Chem.MolFromSmiles returns a molecule or None;        *)
(*   - pubchempy.get_compounds returns a list of candidates or raises;     *)
(*   - pip (subprocess.check_call) succeeds or raises;                     *)
(*   - opening, reading and writing a named file succeeds or raises;       *)
(*   - a keyboard interrupt may arrive between any two steps.              *)
(* Reading standard input and writing standard output are taken to         *)
(* succeed, and Chem.MolFromSmiles to return rather than raise, so the     *)
(* outermost handler of name_to_smiles (lines 57-59) is never entered.     *)
(***************************************************************************)
EXTENDS Naturals, Sequences, FiniteSets

\* ------------------------------------------------------------------ bounds

\* The most lines the input stream (stdin or the batch file) delivers.
MaxLines == 2

\* ------------------------------------------------------------------ values

\* Python's None, as a value no string of the model equals.
NoneVal == <<"None">>

\* The characters str.strip() removes.
Whitespace == {" ", "\n"}

\* The strings the validator is tried on: "O" parses, anything with an "x"
\* does not.
ValidChars == {"O"}

\* The raw lines the input stream may deliver (a line keeps its newline,
\* the last line of a file may lack it).
RawLines ==
    { <<"\n">>, <<" ", "\n">>, <<"O", "\n">>, <<" ", "x", "\n">>, <<"x", " ", "x">> }

\* The values of the positional argument: not given, empty, and two names.
Inputs == { NoneVal, <<>>, <<"O">>, <<"x">> }

\* The values of -o and -i: not given, or a path.
Paths == { NoneVal, <<"p">> }

\* What get_compounds may return: a list of candidates, each given by its
\* canonical_smiles property (which may be None).
Lookups ==
    { <<>>, << NoneVal >>, << <<>> >>, << <<"O">> >>, << <<"x">> >>,
      << <<"O">>, <<"x">> >>, << <<"x">>, <<"O">> >> }

\* The literal written to the batch output file for a failed query.
NOT_FOUND == <<"NOT_FOUND">>

\* One line of output: its format, and the two values formatted into it.
Line(k, n, s) == [kind |-> k, name |-> n, text |-> s]

\* ----------------------------------------------------------- pure helpers

RECURSIVE LStrip(_)
LStrip(s) ==
    IF s # <<>> /\ Head(s) \in Whitespace THEN LStrip(Tail(s)) ELSE s

RECURSIVE RStrip(_)
RStrip(s) ==
    IF s # <<>> /\ s[Len(s)] \in Whitespace
    THEN RStrip(SubSeq(s, 1, Len(s) - 1))
    ELSE s

\* str.strip(): leading and trailing whitespace removed, inner kept.
Strip(s) == RStrip(LStrip(s))

\* Python's truth value of an Optional[str]: None and "" are false.
Truthy(v) == v # NoneVal /\ v # <<>>

\* Chem.MolFromSmiles: a molecule when the string parses, None otherwise.
MolFromSmiles(s) ==
    IF \A i \in 1..Len(s) : s[i] \in ValidChars THEN <<"Mol">> ELSE NoneVal

\* compounds[0].canonical_smiles
FirstCanonicalSmiles(compounds) == compounds[1]

\* ------------------------------------------------------------------- state

VARIABLES
    args,        \* the parsed command line: input, output, image, batch
    pc,          \* main's position
    exit,        \* "running", "returned" (main returned) or "raised"
    exc,         \* the exception that left main, "none" if none
    consumed,    \* the raw lines read so far from stdin or the batch file
    eof,         \* the input stream was read to its end
    name,        \* the query being resolved (chemical_name)
    smiles,      \* the value name_to_smiles returned last
    results,     \* batch mode's list of (name, smiles)
    widx,        \* batch mode: the next element of results to emit
    out,         \* standard output, a sequence of lines
    outfile,     \* the output file: opened (truncated) or not, its lines
    image,       \* the image file: "untouched" or "saved"
    renders,     \* calls of save_molecule_image
    mode,        \* the mode that ran: "none", "interactive", "batch", "single"
    rpc,         \* name_to_smiles' position, "idle" outside a call
    mark,        \* Len(out) when the current call of name_to_smiles began
    pubchempy,   \* the resolution dependency: "installed" or "missing"
    provisions,  \* pip runs within the current call
    queries,     \* get_compounds calls within the current call
    lookup,      \* the last get_compounds of the call: "notcalled",
                 \* "returned" or "raised"
    compounds,   \* what that get_compounds returned
    calls,       \* calls of name_to_smiles so far
    interrupted  \* a keyboard interrupt was delivered

vars ==
    << args, pc, exit, exc, consumed, eof, name, smiles, results, widx, out,
       outfile, image, renders, mode, rpc, mark, pubchempy, provisions,
       queries, lookup, compounds, calls, interrupted >>

mainVars ==
    << args, pc, exit, exc, consumed, eof, results, widx, outfile, image,
       renders, mode, interrupted >>

callVars == << name, smiles, rpc, mark, provisions, queries, lookup, compounds, calls >>

Init ==
    /\ args \in [input : Inputs, output : Paths, image : Paths, batch : BOOLEAN]
    /\ pc = "parse_args"
    /\ exit = "running"
    /\ exc = "none"
    /\ consumed = <<>>
    /\ eof = FALSE
    /\ name = NoneVal
    /\ smiles = NoneVal
    /\ results = <<>>
    /\ widx = 1
    /\ out = <<>>
    /\ outfile = [opened |-> FALSE, lines |-> <<>>]
    /\ image = "untouched"
    /\ renders = 0
    /\ mode = "none"
    /\ rpc = "idle"
    /\ mark = 0
    /\ pubchempy \in {"installed", "missing"}
    /\ provisions = 0
    /\ queries = 0
    /\ lookup = "notcalled"
    /\ compounds = <<>>
    /\ calls = 0
    /\ interrupted = FALSE

\* ------------------------------------------------------------ name_to_smiles

\* The call name_to_smiles(n): the locals of a fresh call.
Call(n) ==
    /\ name' = n
    /\ rpc' = "parse"
    /\ mark' = Len(out)
    /\ provisions' = 0
    /\ queries' = 0
    /\ lookup' = "notcalled"
    /\ compounds' = <<>>
    /\ calls' = calls + 1
    /\ UNCHANGED smiles

\* return v
Return(v) ==
    /\ smiles' = v
    /\ rpc' = "returned"

\* Parse with the pass-through lost: every input goes on to the lookup.
ParseAlwaysLooksUp ==
    /\ exit = "running"
    /\ rpc = "parse"
    /\ rpc' = "import"
    /\ UNCHANGED << mainVars, name, smiles, mark, out, pubchempy, provisions,
                    queries, lookup, compounds, calls >>

\* Lines 29-31: the input is returned as it is when it parses.
Parse ==
    /\ exit = "running"
    /\ rpc = "parse"
    /\ IF MolFromSmiles(name) # NoneVal
       THEN Return(name)
       ELSE /\ rpc' = "import"
            /\ UNCHANGED smiles
    /\ UNCHANGED << mainVars, name, mark, out, pubchempy, provisions, queries,
                    lookup, compounds, calls >>

\* Line 35, and the ImportError handler's first line (42).
Import ==
    /\ exit = "running"
    /\ rpc = "import"
    /\ IF pubchempy = "installed"
       THEN /\ rpc' = "query"
            /\ UNCHANGED out
       ELSE /\ rpc' = "install"
            /\ out' = Append(out, Line("not_installed", <<>>, <<>>))
    /\ UNCHANGED << mainVars, name, smiles, mark, pubchempy, provisions,
                    queries, lookup, compounds, calls >>

\* Lines 36-40 and 53-56: the lookup, and what becomes of its answer.
Query ==
    /\ exit = "running"
    /\ rpc = "query"
    /\ queries' = queries + 1
    /\ \/ \E c \in Lookups :
             /\ lookup' = "returned"
             /\ compounds' = c
             /\ IF c # <<>>
                THEN /\ Return(FirstCanonicalSmiles(c))
                     /\ UNCHANGED out
                ELSE /\ out' = Append(out, Line("no_compounds", name, <<>>))
                     /\ Return(NoneVal)
       \/ /\ lookup' = "raised"
          /\ compounds' = <<>>
          /\ out' = Append(out, Line("lookup_failed", <<>>, <<>>))
          /\ Return(NoneVal)
    /\ UNCHANGED << mainVars, name, mark, pubchempy, provisions, calls >>

\* Lines 43-45 and 51-52: the remedial install.
Install ==
    /\ exit = "running"
    /\ rpc = "install"
    /\ provisions' = provisions + 1
    /\ \/ /\ pubchempy' = "installed"
          /\ rpc' = "requery"
          /\ UNCHANGED << out, smiles >>
       \/ /\ out' = Append(out, Line("install_failed", <<>>, <<>>))
          /\ Return(NoneVal)
          /\ UNCHANGED pubchempy
    /\ UNCHANGED << mainVars, name, mark, queries, lookup, compounds, calls >>

\* Requery with a failed retry sent back to the install step.
RequeryInstallsAgain ==
    /\ exit = "running"
    /\ rpc = "requery"
    /\ queries' = queries + 1
    /\ \/ \E c \in Lookups :
             /\ lookup' = "returned"
             /\ compounds' = c
             /\ IF c # <<>>
                THEN Return(FirstCanonicalSmiles(c))
                ELSE Return(NoneVal)
             /\ UNCHANGED out
       \/ /\ lookup' = "raised"
          /\ compounds' = <<>>
          /\ out' = Append(out, Line("install_failed", <<>>, <<>>))
          /\ rpc' = "install"
          /\ UNCHANGED smiles
    /\ UNCHANGED << mainVars, name, mark, pubchempy, provisions, calls >>

\* Lines 47-52 and 56: the lookup tried again after the install.
Requery ==
    /\ exit = "running"
    /\ rpc = "requery"
    /\ queries' = queries + 1
    /\ \/ \E c \in Lookups :
             /\ lookup' = "returned"
             /\ compounds' = c
             /\ IF c # <<>>
                THEN Return(FirstCanonicalSmiles(c))
                ELSE Return(NoneVal)
             /\ UNCHANGED out
       \/ /\ lookup' = "raised"
          /\ compounds' = <<>>
          /\ out' = Append(out, Line("install_failed", <<>>, <<>>))
          /\ Return(NoneVal)
    /\ UNCHANGED << mainVars, name, mark, pubchempy, provisions, calls >>

\* ------------------------------------------------------- save_molecule_image

\* Lines 69-78: one call of the Renderer; no outcome of it raises.
SaveMoleculeImage ==
    /\ exit = "running"
    /\ pc = "s_render"
    /\ renders' = renders + 1
    /\ IF MolFromSmiles(smiles) # NoneVal
       THEN \/ /\ image' = "saved"
               /\ out' = Append(out, Line("image_saved", <<>>, args.image))
            \/ /\ out' = Append(out, Line("image_error", <<>>, <<>>))
               /\ UNCHANGED image
       ELSE /\ out' = Append(out, Line("image_not_generated", <<>>, <<>>))
            /\ UNCHANGED image
    /\ pc' = "done"
    /\ exit' = "returned"
    /\ UNCHANGED << args, exc, consumed, eof, results, widx, outfile, mode,
                    interrupted, callVars, pubchempy >>

\* ---------------------------------------------------------------------- main

\* SelectMode with the batch flag tested before the input argument.
SelectModeBatchFirst(a) ==
    IF a.batch THEN "batch"
    ELSE IF ~Truthy(a.input) THEN "interactive"
    ELSE "single"

\* The mode lines 89, 106 and 134 select for a command line.
SelectMode(a) ==
    IF ~Truthy(a.input) THEN "interactive"
    ELSE IF a.batch THEN "batch"
    ELSE "single"

\* The result line printed for a query (lines 98-101, 128-131).
PrintedResult(n, s) ==
    IF Truthy(s) THEN Line("arrow", n, s) ELSE Line("could_not_convert", n, <<>>)

\* WrittenResult with the sentinel written for the wrong case.
WrittenResultInverted(n, s) ==
    IF Truthy(s) THEN Line("tsv", n, NOT_FOUND) ELSE Line("tsv", n, s)

\* The result line written to the batch output file (lines 121-124).
WrittenResult(n, s) ==
    IF Truthy(s) THEN Line("tsv", n, s) ELSE Line("tsv", n, NOT_FOUND)

\* main returns.
Finish ==
    /\ pc' = "done"
    /\ exit' = "returned"

\* An exception leaves main.
Raise(e) ==
    /\ pc' = "done"
    /\ exit' = "raised"
    /\ exc' = e

\* Lines 87-91, 106, 134-136: the mode is chosen and entered.
Dispatch ==
    /\ exit = "running"
    /\ pc = "parse_args"
    /\ mode' = SelectMode(args)
    /\ \/ /\ SelectMode(args) = "interactive"
          /\ pc' = "i_read"
          /\ out' = Append(out, Line("prompt", <<>>, <<>>))
          /\ UNCHANGED callVars
       \/ /\ SelectMode(args) = "batch"
          /\ pc' = "b_open"
          /\ UNCHANGED << out, callVars >>
       \/ /\ SelectMode(args) = "single"
          /\ pc' = "s_resolving"
          /\ Call(args.input)
          /\ UNCHANGED out
    /\ UNCHANGED << args, exit, exc, consumed, eof, results, widx, outfile, image,
                    renders, pubchempy, interrupted >>

\* Lines 93-97: the next line of stdin, or its end.
InteractiveRead ==
    /\ exit = "running"
    /\ pc = "i_read"
    /\ \/ \E line \in RawLines :
             /\ Len(consumed) < MaxLines
             /\ consumed' = Append(consumed, line)
             /\ IF Strip(line) = <<>>
                THEN UNCHANGED << pc, callVars >>
                ELSE /\ pc' = "i_resolving"
                     /\ Call(Strip(line))
             /\ UNCHANGED << exit, eof >>
       \/ /\ Finish
          /\ eof' = TRUE
          /\ UNCHANGED << consumed, callVars >>
    /\ UNCHANGED << args, exc, results, widx, out, outfile, image, renders, mode,
                    pubchempy, interrupted >>

\* Lines 98-101: the result of the query is printed.
InteractivePrint ==
    /\ exit = "running"
    /\ pc = "i_resolving"
    /\ rpc = "returned"
    /\ out' = Append(out, PrintedResult(name, smiles))
    /\ pc' = "i_read"
    /\ rpc' = "idle"
    /\ UNCHANGED << args, exit, exc, consumed, eof, results, widx, outfile, image,
                    renders, mode, pubchempy, interrupted, name, smiles, mark,
                    provisions, queries, lookup, compounds, calls >>

\* except Exception as e: print(f"Error: {e}") (lines 132-133).
BatchError(e) ==
    /\ out' = Append(out, Line("error", <<>>, << e >>))
    /\ Finish

\* Line 109: the batch file is opened.
BatchOpen ==
    /\ exit = "running"
    /\ pc = "b_open"
    /\ \/ /\ pc' = "b_read"
          /\ UNCHANGED << exit, out >>
       \/ BatchError("open_input")
    /\ UNCHANGED << args, exc, consumed, eof, results, widx, outfile, image,
                    renders, mode, pubchempy, interrupted, callVars >>

\* Lines 110-114: the next line of the batch file, its end, or a failure.
BatchRead ==
    /\ exit = "running"
    /\ pc = "b_read"
    /\ \/ \E line \in RawLines :
             /\ Len(consumed) < MaxLines
             /\ consumed' = Append(consumed, line)
             /\ IF Strip(line) = <<>>
                THEN UNCHANGED << pc, callVars >>
                ELSE /\ pc' = "b_resolving"
                     /\ Call(Strip(line))
             /\ UNCHANGED << exit, out, eof >>
       \/ /\ pc' = "b_output"
          /\ eof' = TRUE
          /\ UNCHANGED << exit, out, consumed, callVars >>
       \/ /\ BatchError("read_input")
          /\ UNCHANGED << consumed, eof, callVars >>
    /\ UNCHANGED << args, exc, results, widx, outfile, image, renders, mode,
                    pubchempy, interrupted >>

\* BatchAppend with the result printed as soon as it is known.
BatchAppendAndPrint ==
    /\ exit = "running"
    /\ pc = "b_resolving"
    /\ rpc = "returned"
    /\ results' = Append(results, << name, smiles >>)
    /\ out' = Append(out, PrintedResult(name, smiles))
    /\ pc' = "b_read"
    /\ rpc' = "idle"
    /\ UNCHANGED << args, exit, exc, consumed, eof, widx, outfile, image,
                    renders, mode, pubchempy, interrupted, name, smiles, mark,
                    provisions, queries, lookup, compounds, calls >>

\* Line 115: results.append((name, smiles)).
BatchAppend ==
    /\ exit = "running"
    /\ pc = "b_resolving"
    /\ rpc = "returned"
    /\ results' = Append(results, << name, smiles >>)
    /\ pc' = "b_read"
    /\ rpc' = "idle"
    /\ UNCHANGED << args, exit, exc, consumed, eof, widx, out, outfile, image,
                    renders, mode, pubchempy, interrupted, name, smiles, mark,
                    provisions, queries, lookup, compounds, calls >>

\* Lines 118-119: the output file is opened for writing, if one was asked for.
BatchOutput ==
    /\ exit = "running"
    /\ pc = "b_output"
    /\ IF Truthy(args.output)
       THEN \/ /\ outfile' = [opened |-> TRUE, lines |-> <<>>]
               /\ pc' = "b_write"
               /\ UNCHANGED << exit, out >>
            \/ /\ BatchError("open_output")
               /\ UNCHANGED outfile
       ELSE /\ pc' = "b_print"
            /\ UNCHANGED << exit, out, outfile >>
    /\ UNCHANGED << args, exc, consumed, eof, results, widx, image, renders, mode,
                    pubchempy, interrupted, callVars >>

\* Lines 120-125: one record is written, or the file is closed and reported.
BatchWrite ==
    /\ exit = "running"
    /\ pc = "b_write"
    /\ IF widx <= Len(results)
       THEN \/ /\ outfile' =
                     [outfile EXCEPT !.lines =
                         Append(@, WrittenResult(results[widx][1], results[widx][2]))]
               /\ widx' = widx + 1
               /\ UNCHANGED << pc, exit, out >>
            \/ /\ BatchError("write_output")
               /\ UNCHANGED << outfile, widx >>
       ELSE /\ out' = Append(out, Line("results_written", <<>>, args.output))
            /\ Finish
            /\ UNCHANGED << outfile, widx >>
    /\ UNCHANGED << args, exc, consumed, eof, results, image, renders, mode,
                    pubchempy, interrupted, callVars >>

\* Lines 127-131: one result is printed.
BatchPrint ==
    /\ exit = "running"
    /\ pc = "b_print"
    /\ IF widx <= Len(results)
       THEN /\ out' = Append(out, PrintedResult(results[widx][1], results[widx][2]))
            /\ widx' = widx + 1
            /\ UNCHANGED << pc, exit >>
       ELSE /\ Finish
            /\ UNCHANGED << out, widx >>
    /\ UNCHANGED << args, exc, consumed, eof, results, outfile, image, renders, mode,
                    pubchempy, interrupted, callVars >>

\* Lines 137-148: single mode's result is written or printed.
SingleOutput ==
    /\ exit = "running"
    /\ pc = "s_resolving"
    /\ rpc = "returned"
    /\ rpc' = "idle"
    /\ IF Truthy(smiles)
       THEN /\ IF Truthy(args.output)
               THEN \/ /\ outfile' =
                             [opened |-> TRUE, lines |-> << Line("smiles", <<>>, smiles) >>]
                       /\ out' = Append(out, Line("smiles_written", <<>>, args.output))
                       /\ UNCHANGED exc
                       /\ IF Truthy(args.image)
                          THEN /\ pc' = "s_render"
                               /\ UNCHANGED exit
                          ELSE Finish
                    \/ /\ Raise("OSError")
                       /\ UNCHANGED << out, outfile >>
                    \/ /\ outfile' = [opened |-> TRUE, lines |-> <<>>]
                       /\ Raise("OSError")
                       /\ UNCHANGED out
               ELSE /\ out' = Append(out, Line("smiles", <<>>, smiles))
                    /\ UNCHANGED << exc, outfile >>
                    /\ IF Truthy(args.image)
                       THEN /\ pc' = "s_render"
                            /\ UNCHANGED exit
                       ELSE Finish
       ELSE /\ out' = Append(out, Line("could_not_convert", args.input, <<>>))
            /\ Finish
            /\ UNCHANGED << exc, outfile >>
    /\ UNCHANGED << args, consumed, eof, results, widx, image, renders, mode,
                    pubchempy, interrupted, name, smiles, mark, provisions,
                    queries, lookup, compounds, calls >>

\* InTry with the try closed before the call of name_to_smiles.
InTryReadOnly == pc = "i_read"

\* The positions of main inside the try of lines 92-103.
InTry == pc \in {"i_read", "i_resolving"}

\* A keyboard interrupt: KeyboardInterrupt is no Exception, so no handler of
\* name_to_smiles or of batch mode catches it; only lines 102-103 do.
Interrupt ==
    /\ exit = "running"
    /\ interrupted' = TRUE
    /\ rpc' = "idle"
    /\ IF InTry
       THEN /\ Finish
            /\ UNCHANGED exc
       ELSE Raise("KeyboardInterrupt")
    /\ UNCHANGED << args, consumed, eof, results, widx, out, outfile, image,
                    renders, mode, pubchempy, name, smiles, mark, provisions,
                    queries, lookup, compounds, calls >>

Next ==
    \/ Dispatch
    \/ Parse
    \/ Import
    \/ Query
    \/ Install
    \/ Requery
    \/ InteractiveRead
    \/ InteractivePrint
    \/ BatchOpen
    \/ BatchRead
    \/ BatchAppend
    \/ BatchOutput
    \/ BatchWrite
    \/ BatchPrint
    \/ SingleOutput
    \/ SaveMoleculeImage
    \/ Interrupt

Spec == Init /\ [][Next]_vars

\* ------------------------------------------------------------------ claims

\* The result lines among the lines of standard output.
ResultLines(o) ==
    SelectSeq(o, LAMBDA l : l.kind \in {"arrow", "could_not_convert"})

\* The 'Error:' diagnostics among the lines of standard output.
ErrorLines(o) == SelectSeq(o, LAMBDA l : l.kind = "error")

\* The queries of an input: its non-blank lines, stripped, in order.
RECURSIVE NonBlankNames(_)
NonBlankNames(lines) ==
    IF lines = <<>> THEN <<>>
    ELSE IF Strip(Head(lines)) = <<>> THEN NonBlankNames(Tail(lines))
    ELSE << Strip(Head(lines)) >> \o NonBlankNames(Tail(lines))

\* Batch mode's result output: the output file when a path was given,
\* otherwise the result lines of standard output.
BatchResultOutput ==
    IF args.output # NoneVal THEN outfile.lines ELSE ResultLines(out)

\* A result line that carries the failure sentinel.
IsSentinel(l) ==
    \/ l.kind = "could_not_convert"
    \/ l.kind = "tsv" /\ l.text = NOT_FOUND

\* The diagnostics the current call of name_to_smiles has printed.
CallDiagnostics == SubSeq(out, mark + 1, Len(out))

\* C1: in a call of name_to_smiles on a string the validator accepts, the
\* lookup service is never imported, provisioned or queried, and the value
\* returned is the input string itself.
C1_PassThrough ==
    (rpc # "idle" /\ MolFromSmiles(name) # NoneVal) =>
        /\ rpc \in {"parse", "returned"}
        /\ queries = 0
        /\ provisions = 0
        /\ lookup = "notcalled"
        /\ CallDiagnostics = <<>>
        /\ rpc = "returned" => smiles = name

C1_Witness ==
    /\ rpc = "returned"
    /\ name = <<"O">>
    /\ MolFromSmiles(name) # NoneVal
    /\ smiles = name
    /\ pubchempy = "missing"

\* C2: when name_to_smiles returns after a lookup that answered with zero
\* candidates, it returns None and has printed the "No compounds found"
\* diagnostic for its query, on the first lookup and on the retried one.
C2_NotFoundDiagnosed ==
    (rpc = "returned" /\ lookup = "returned" /\ compounds = <<>>) =>
        /\ smiles = NoneVal
        /\ \E i \in 1..Len(CallDiagnostics) :
              /\ CallDiagnostics[i].kind = "no_compounds"
              /\ CallDiagnostics[i].name = name

C4_RendersOnce ==
    ( /\ mode = "single"
      /\ exit # "running"
      /\ ~interrupted
      /\ MolFromSmiles(args.input) # NoneVal
      /\ args.image # NoneVal ) => renders = 1

\* C5: no exception other than a keyboard interrupt leaves main, and a
\* keyboard interrupt in interactive mode does not leave it either.
C5_NoFailureEscapes ==
    /\ exit = "raised" => exc = "KeyboardInterrupt"
    /\ (interrupted /\ mode = "interactive") => exit = "returned"

\* C6: a string returned by name_to_smiles is accepted by the validator.
C6_ResultIsValid ==
    (rpc = "returned" /\ smiles # NoneVal) => MolFromSmiles(smiles) # NoneVal

\* C7: a keyboard interrupt delivered in interactive mode, while a line is
\* awaited or while a query is being resolved, makes main return: no
\* exception leaves it, that step prints nothing and starts no resolution,
\* and nothing is printed, read or resolved afterwards.
C7_InterruptEndsInteractive ==
    [][ /\ (mode = "interactive" /\ ~interrupted /\ interrupted') =>
              /\ exit' = "returned"
              /\ exc' = "none"
              /\ pc' = "done"
              /\ out' = out
              /\ calls' = calls
              /\ consumed' = consumed
        /\ (mode = "interactive" /\ interrupted) =>
              UNCHANGED << out, calls, consumed, exit, exc >> ]_vars

C7_Witness ==
    /\ mode = "interactive"
    /\ interrupted
    /\ exit = "returned"
    /\ calls = 1
    /\ ResultLines(out) = <<>>

\* C8 as stated: the mode that runs is interactive when no input argument
\* is given, batch when one is given with the batch flag, single when one
\* is given without it; save_molecule_image is called only in single mode.
C8_ModeByPresence ==
    LET expected ==
            IF args.input = NoneVal THEN "interactive"
            ELSE IF args.batch THEN "batch"
            ELSE "single"
    IN  /\ mode # "none" => mode = expected
        /\ (renders > 0 \/ pc = "s_render") => expected = "single"

\* C8 as amended: the mode that runs is interactive when no input argument
\* is given or the one given is the empty string, batch when a non-empty
\* one is given with the batch flag, single when a non-empty one is given
\* without it; every position of main belongs to that mode, and
\* save_molecule_image is called only in single mode.
C8_ModeByNonEmptyInput ==
    LET expected ==
            IF args.input = NoneVal \/ args.input = <<>> THEN "interactive"
            ELSE IF args.batch THEN "batch"
            ELSE "single"
    IN  /\ mode # "none" => mode = expected
        /\ pc \in {"i_read", "i_resolving"} => expected = "interactive"
        /\ pc \in {"b_open", "b_read", "b_resolving", "b_output", "b_write", "b_print"}
              => expected = "batch"
        /\ pc \in {"s_resolving", "s_render"} => expected = "single"
        /\ (renders > 0 \/ image = "saved") => expected = "single"
        /\ renders <= 1

C8_Witness ==
    /\ args.input = <<>>
    /\ args.batch
    /\ args.image # NoneVal
    /\ mode = "interactive"
    /\ calls = MaxLines
    /\ exit = "returned"
    /\ renders = 0

\* C9: one call of name_to_smiles runs the install at most once and queries
\* the lookup service at most once, the retry after an install being its
\* only query; having installed, it returns the first candidate's
\* canonical_smiles when the retry answered with candidates, None otherwise.
C9_OneProvisionOneRetry ==
    /\ provisions <= 1
    /\ queries <= 1
    /\ rpc = "requery" => (provisions = 1 /\ queries = 0)
    /\ (rpc = "returned" /\ provisions = 1) =>
          smiles = IF lookup = "returned" /\ compounds # <<>>
                   THEN compounds[1]
                   ELSE NoneVal

C9_Witness ==
    /\ rpc = "returned"
    /\ provisions = 1
    /\ queries = 1
    /\ lookup = "returned"
    /\ Len(compounds) = 2
    /\ smiles = compounds[1]
    /\ smiles # compounds[2]

\* C10: in batch mode the output file is opened and result lines are
\* printed only once the input file was read to its end and every query
\* resolved; when opening or reading the input file fails, the output file
\* is untouched, no result line is printed and there is one 'Error:' line.
C10_ReadAllBeforeOutput ==
    mode = "batch" =>
        /\ (outfile.opened \/ ResultLines(out) # <<>>) =>
              /\ eof
              /\ rpc = "idle"
              /\ pc \in {"b_write", "b_print", "done"}
              /\ Len(results) = Len(NonBlankNames(consumed))
        /\ (\E i \in 1..Len(out) :
                /\ out[i].kind = "error"
                /\ out[i].text \in { <<"open_input">>, <<"read_input">> }) =>
              /\ ~outfile.opened
              /\ outfile.lines = <<>>
              /\ ResultLines(out) = <<>>
              /\ Len(ErrorLines(out)) = 1
              /\ exit = "returned"

C10_Witness ==
    /\ mode = "batch"
    /\ exit = "returned"
    /\ Len(results) = 1
    /\ results[1][2] # NoneVal
    /\ \E i \in 1..Len(out) :
          out[i].kind = "error" /\ out[i].text = <<"read_input">>
    /\ ~outfile.opened
    /\ ResultLines(out) = <<>>

====
